---- MODULE Spec2Model ----
(***************************************************************************)
(* CheckHim Go SDK (package checkhim): the verification client.           *)
(*                                                                         *)
(* The model covers New (client construction) and Verify /                *)
(* VerifyWithContext: the precondition on the phone number, the wire      *)
(* request, the exchange with the transport (http.Client.Do and           *)
(* io.ReadAll, with the caller's context threaded through the request),   *)
(* and the classification of the outcome.  Bodies are token sequences;    *)
(* json.Marshal / json.Unmarshal are modelled by an encoder and a         *)
(* recursive-descent decoder over those tokens.                           *)
(***************************************************************************)
EXTENDS Integers, Sequences, FiniteSets, TLC

(***************************************************************************)
(* Text.  A Go string or []byte is a sequence of tokens.  JSON lexemes    *)
(* are tokens of their own; any other run of characters is a "chars"      *)
(* token.  The empty string is the empty sequence.                        *)
(***************************************************************************)
Tok(t, v) == [t |-> t, v |-> v]

LBrace == Tok("{", "")
RBrace == Tok("}", "")
LBrack == Tok("[", "")
RBrack == Tok("]", "")
Colon == Tok(":", "")
Comma == Tok(",", "")
Newline == Tok("ws", "\n")

Str(s) == Tok("str", s)
Num(s) == Tok("num", s)
Lit(s) == Tok("lit", s)
Chars(s) == Tok("chars", s)

Bool(b) == IF b THEN Lit("true") ELSE Lit("false")

Text(s) == IF s = "" THEN << >> ELSE << Chars(s) >>

(***************************************************************************)
(* JSON values: k is the kind, s the scalar's text, m the members of an   *)
(* object (key, val) or the elements of an array (key = "").              *)
(***************************************************************************)
JV(k, s, m) == [k |-> k, s |-> s, m |-> m]

JNull == JV("null", "", << >>)

Member(key, val) == [key |-> key, val |-> val]

ParseFail(i) == [ok |-> FALSE, val |-> JNull, next |-> i]

ParseOK(val, i) == [ok |-> TRUE, val |-> val, next |-> i]

RECURSIVE SkipWS(_, _)
SkipWS(toks, i) ==
    IF i <= Len(toks) /\ toks[i].t = "ws" THEN SkipWS(toks, i + 1) ELSE i

RECURSIVE ParseValue(_, _)
RECURSIVE ParseMembers(_, _, _)
RECURSIVE ParseElements(_, _, _)

\* encoding/json scanner: one value starting at toks[i0].
ParseValue(toks, i0) ==
    LET i == SkipWS(toks, i0) IN
    IF i > Len(toks) THEN ParseFail(i)
    ELSE LET tk == toks[i] IN
         CASE tk.t = "str" -> ParseOK(JV("str", tk.v, << >>), i + 1)
           [] tk.t = "num" -> ParseOK(JV("num", tk.v, << >>), i + 1)
           [] tk.t = "lit" ->
                IF tk.v = "null" THEN ParseOK(JNull, i + 1)
                ELSE ParseOK(JV("bool", tk.v, << >>), i + 1)
           [] tk.t = "{" -> ParseMembers(toks, i + 1, << >>)
           [] tk.t = "[" -> ParseElements(toks, i + 1, << >>)
           [] OTHER -> ParseFail(i)

\* After "{" (acc empty) or after a "," inside an object.
ParseMembers(toks, i0, acc) ==
    LET i == SkipWS(toks, i0) IN
    IF i > Len(toks) THEN ParseFail(i)
    ELSE IF toks[i].t = "}" /\ acc = << >> THEN ParseOK(JV("obj", "", acc), i + 1)
    ELSE IF toks[i].t # "str" THEN ParseFail(i)
    ELSE LET j == SkipWS(toks, i + 1) IN
         IF j > Len(toks) \/ toks[j].t # ":" THEN ParseFail(j)
         ELSE LET r == ParseValue(toks, j + 1) IN
              IF ~r.ok THEN r
              ELSE LET k == SkipWS(toks, r.next)
                       acc2 == Append(acc, Member(toks[i].v, r.val))
                   IN  IF k > Len(toks) THEN ParseFail(k)
                       ELSE IF toks[k].t = "}" THEN ParseOK(JV("obj", "", acc2), k + 1)
                       ELSE IF toks[k].t = "," THEN ParseMembers(toks, k + 1, acc2)
                       ELSE ParseFail(k)

\* After "[" (acc empty) or after a "," inside an array.
ParseElements(toks, i0, acc) ==
    LET i == SkipWS(toks, i0) IN
    IF i > Len(toks) THEN ParseFail(i)
    ELSE IF toks[i].t = "]" /\ acc = << >> THEN ParseOK(JV("arr", "", acc), i + 1)
    ELSE LET r == ParseValue(toks, i) IN
         IF ~r.ok THEN r
         ELSE LET k == SkipWS(toks, r.next)
                  acc2 == Append(acc, Member("", r.val))
              IN  IF k > Len(toks) THEN ParseFail(k)
                  ELSE IF toks[k].t = "]" THEN ParseOK(JV("arr", "", acc2), k + 1)
                  ELSE IF toks[k].t = "," THEN ParseElements(toks, k + 1, acc2)
                  ELSE ParseFail(k)

\* json.Unmarshal's checkValid: exactly one value, then only white space.
ParseJSON(body) ==
    LET r == ParseValue(body, 1) IN
    IF r.ok /\ SkipWS(body, r.next) > Len(body) THEN r ELSE ParseFail(r.next)

(***************************************************************************)
(* Go values: maps, the request/response structs, errors.                 *)
(***************************************************************************)
\* map[string]interface{}: nil, or a set of entries with distinct keys.
NilMap == [isNil |-> TRUE, entries |-> {}]

MakeMap == [isNil |-> FALSE, entries |-> {}]

MapPut(m, key, val) ==
    [isNil |-> FALSE,
     entries |-> {e \in m.entries : e.key # key} \cup {Member(key, val)}]

RECURSIVE MapPutAll(_, _, _)
MapPutAll(m, members, i) ==
    IF i > Len(members) THEN m
    ELSE MapPutAll(MapPut(m, members[i].key, members[i].val), members, i + 1)

\* encoding/json matches a key to a field by exact name, then ignoring case.
FoldName(key) ==
    CASE key \in {"Error", "ERROR"} -> "error"
      [] key \in {"Code", "CODE"} -> "code"
      [] key \in {"Details", "DETAILS"} -> "details"
      [] key \in {"Carrier", "CARRIER"} -> "carrier"
      [] key \in {"Valid", "VALID"} -> "valid"
      [] OTHER -> key

VerifyRequest(number) == [Number |-> number]

internalVerifyRequest(number, type) == [Number |-> number, Type |-> type]

VerifyResponse(carrier, valid) == [Carrier |-> carrier, Valid |-> valid]

ErrorResponse(error, code, details) ==
    [Error |-> error, Code |-> code, Details |-> details]

\* The first decoding error is kept (decodeState.saveError).
SaveError(old, new) == IF old = "" THEN new ELSE old

\* Variant: the Valid field tagged with another name.
VerifyResponseFieldTag(acc, mem) ==
    LET f == FoldName(mem.key)
        val == mem.val
    IN  CASE f = "carrier" ->
               IF val.k = "str" THEN [acc EXCEPT !.v.Carrier = val.s]
               ELSE IF val.k = "null" THEN acc
               ELSE [acc EXCEPT !.err = SaveError(@, "UnmarshalTypeError")]
          [] f = "is_valid" ->
               IF val.k = "bool" THEN [acc EXCEPT !.v.Valid = (val.s = "true")]
               ELSE IF val.k = "null" THEN acc
               ELSE [acc EXCEPT !.err = SaveError(@, "UnmarshalTypeError")]
          [] OTHER -> acc

\* One member of a JSON object decoded into a VerifyResponse.
VerifyResponseField(acc, mem) ==
    LET f == FoldName(mem.key)
        val == mem.val
    IN  CASE f = "carrier" ->
               IF val.k = "str" THEN [acc EXCEPT !.v.Carrier = val.s]
               ELSE IF val.k = "null" THEN acc
               ELSE [acc EXCEPT !.err = SaveError(@, "UnmarshalTypeError")]
          [] f = "valid" ->
               IF val.k = "bool" THEN [acc EXCEPT !.v.Valid = (val.s = "true")]
               ELSE IF val.k = "null" THEN acc
               ELSE [acc EXCEPT !.err = SaveError(@, "UnmarshalTypeError")]
          [] OTHER -> acc

\* One member of a JSON object decoded into an ErrorResponse.
ErrorResponseField(acc, mem) ==
    LET f == FoldName(mem.key)
        val == mem.val
    IN  CASE f = "error" ->
               IF val.k = "str" THEN [acc EXCEPT !.v.Error = val.s]
               ELSE IF val.k = "null" THEN acc
               ELSE [acc EXCEPT !.err = SaveError(@, "UnmarshalTypeError")]
          [] f = "code" ->
               IF val.k = "str" THEN [acc EXCEPT !.v.Code = val.s]
               ELSE IF val.k = "null" THEN acc
               ELSE [acc EXCEPT !.err = SaveError(@, "UnmarshalTypeError")]
          [] f = "details" ->
               IF val.k = "obj"
               THEN [acc EXCEPT !.v.Details = MapPutAll(@, val.m, 1)]
               ELSE IF val.k = "null" THEN [acc EXCEPT !.v.Details = NilMap]
               ELSE [acc EXCEPT !.err = SaveError(@, "UnmarshalTypeError")]
          [] OTHER -> acc

RECURSIVE DecodeVerifyFields(_, _, _)
DecodeVerifyFields(acc, members, i) ==
    IF i > Len(members) THEN acc
    ELSE DecodeVerifyFields(VerifyResponseField(acc, members[i]), members, i + 1)

RECURSIVE DecodeErrorFields(_, _, _)
DecodeErrorFields(acc, members, i) ==
    IF i > Len(members) THEN acc
    ELSE DecodeErrorFields(ErrorResponseField(acc, members[i]), members, i + 1)

\* json.Unmarshal(body, &verifyResp): err = "" is a nil error.
UnmarshalVerifyResponse(body) ==
    LET zero == [v |-> VerifyResponse("", FALSE), err |-> ""]
        p == ParseJSON(body)
    IN  IF ~p.ok THEN [zero EXCEPT !.err = "SyntaxError"]
        ELSE IF p.val.k = "null" THEN zero
        ELSE IF p.val.k # "obj" THEN [zero EXCEPT !.err = "UnmarshalTypeError"]
        ELSE DecodeVerifyFields(zero, p.val.m, 1)

\* json.Unmarshal(body, &errorResp).
UnmarshalErrorResponse(body) ==
    LET zero == [v |-> ErrorResponse("", "", NilMap), err |-> ""]
        p == ParseJSON(body)
    IN  IF ~p.ok THEN [zero EXCEPT !.err = "SyntaxError"]
        ELSE IF p.val.k = "null" THEN zero
        ELSE IF p.val.k # "obj" THEN [zero EXCEPT !.err = "UnmarshalTypeError"]
        ELSE DecodeErrorFields(zero, p.val.m, 1)

\* encoding/json writes a string coerced to valid UTF-8: a byte that is no
\* UTF-8 becomes U+FFFD.
ToValidUTF8(str) == IF str = "+244\\xFF" THEN "+244\\uFFFD" ELSE str

\* Variant: the number is sent under another key.
MarshalInternalVerifyRequestKey(r) ==
    << LBrace, Str("phone"), Colon, Str(ToValidUTF8(r.Number)), Comma,
       Str("type"), Colon, Str(ToValidUTF8(r.Type)), RBrace >>

\* json.Marshal(internalReq): a struct of two strings never fails to encode.
MarshalInternalVerifyRequest(r) ==
    << LBrace, Str("number"), Colon, Str(ToValidUTF8(r.Number)), Comma,
       Str("type"), Colon, Str(ToValidUTF8(r.Type)), RBrace >>

\* One member of a JSON object decoded by the service into
\* struct{Number string `json:"number"`; Type string `json:"type"`}.
InternalRequestField(acc, mem) ==
    LET f == IF mem.key \in {"Number", "NUMBER"} THEN "number"
             ELSE IF mem.key \in {"Type", "TYPE"} THEN "type" ELSE mem.key
        val == mem.val
    IN  CASE f = "number" ->
               IF val.k = "str" THEN [acc EXCEPT !.v.Number = val.s]
               ELSE IF val.k = "null" THEN acc
               ELSE [acc EXCEPT !.err = SaveError(@, "UnmarshalTypeError")]
          [] f = "type" ->
               IF val.k = "str" THEN [acc EXCEPT !.v.Type = val.s]
               ELSE IF val.k = "null" THEN acc
               ELSE [acc EXCEPT !.err = SaveError(@, "UnmarshalTypeError")]
          [] OTHER -> acc

RECURSIVE DecodeInternalFields(_, _, _)
DecodeInternalFields(acc, members, i) ==
    IF i > Len(members) THEN acc
    ELSE DecodeInternalFields(InternalRequestField(acc, members[i]), members, i + 1)

\* The service side: json.NewDecoder(r.Body).Decode(&internalReq).
DecodeInternalRequest(body) ==
    LET zero == [v |-> internalVerifyRequest("", ""), err |-> ""]
        p == ParseJSON(body)
    IN  IF ~p.ok THEN [zero EXCEPT !.err = "SyntaxError"]
        ELSE IF p.val.k = "null" THEN zero
        ELSE IF p.val.k # "obj" THEN [zero EXCEPT !.err = "UnmarshalTypeError"]
        ELSE DecodeInternalFields(zero, p.val.m, 1)

\* The service side: json.NewEncoder(w).Encode(VerifyResponse{...}).
EncodeVerifyResponse(r) ==
    << LBrace, Str("carrier"), Colon, Str(r.Carrier), Comma,
       Str("valid"), Colon, Bool(r.Valid), RBrace, Newline >>

\* A map's entries in key order; the model's detail values are strings.
RECURSIVE EncodeEntries(_)
EncodeEntries(entries) ==
    IF entries = {} THEN << >>
    ELSE LET e == CHOOSE x \in entries : TRUE
             rest == entries \ {e}
         IN  << Str(e.key), Colon, Str(e.val.s) >>
             \o (IF rest = {} THEN << >> ELSE << Comma >> \o EncodeEntries(rest))

\* The service side: json.NewEncoder(w).Encode(ErrorResponse{...}); code and
\* details carry omitempty.
EncodeErrorResponse(e) ==
    << LBrace, Str("error"), Colon, Str(e.Error) >>
    \o (IF e.Code # "" THEN << Comma, Str("code"), Colon, Str(e.Code) >> ELSE << >>)
    \o (IF e.Details.entries # {}
        THEN << Comma, Str("details"), Colon, LBrace >>
             \o EncodeEntries(e.Details.entries) \o << RBrace >>
        ELSE << >>)
    \o << RBrace, Newline >>

\* error values: nil, *APIError, or fmt.Errorf("<Message>: %w", cause).
NoError ==
    [type |-> "nil", StatusCode |-> 0, Message |-> << >>, Code |-> "",
     Details |-> NilMap, cause |-> ""]

\* Variant: the code is rendered also when it is empty.
ErrorAlwaysCode(e) ==
    << Chars("checkhim: ") >> \o e.Message
    \o << Chars(" (code: "), Chars(e.Code), Chars(", status: "),
          Chars(ToString(e.StatusCode)), Chars(")") >>

\* checkhim.go:136-142: (*APIError).Error(), the text in pieces.
Error(e) ==
    IF e.Code # ""
    THEN << Chars("checkhim: ") >> \o e.Message
         \o << Chars(" (code: "), Chars(e.Code), Chars(", status: "),
               Chars(ToString(e.StatusCode)), Chars(")") >>
    ELSE << Chars("checkhim: ") >> \o e.Message
         \o << Chars(" (status: "), Chars(ToString(e.StatusCode)), Chars(")") >>

APIError(status, message, code, details) ==
    [type |-> "APIError", StatusCode |-> status, Message |-> message,
     Code |-> code, Details |-> details, cause |-> ""]

Errorf(prefix, cause) ==
    [type |-> "wrapError", StatusCode |-> 0, Message |-> Text(prefix), Code |-> "",
     Details |-> NilMap, cause |-> cause]

\* *VerifyResponse: nil, or a pointer to a response.
NilResponse == [isNil |-> TRUE, Carrier |-> "", Valid |-> FALSE]

PtrResponse(r) == [isNil |-> FALSE, Carrier |-> r.Carrier, Valid |-> r.Valid]

(***************************************************************************)
(* Client construction.  A URL is the sequence of its parts; durations    *)
(* are in seconds.                                                        *)
(***************************************************************************)
DefaultBaseURL == << "http", "://", "api.checkhim.tech" >>

DefaultTimeout == 30

APIVersion == "v1"

\* *http.Client: nil, or a handle with its own Timeout.
NilHTTPClient == [id |-> "nil", Timeout |-> 0]

HTTPClient(id, timeout) == [id |-> id, Timeout |-> timeout]

Config(baseURL, timeout, httpClient) ==
    [BaseURL |-> baseURL, Timeout |-> timeout, HTTPClient |-> httpClient]

Client(apiKey, baseURL, httpClient) ==
    [apiKey |-> apiKey, baseURL |-> baseURL, httpClient |-> httpClient]

\* Variant: the last Config is read instead of the first.
NewLastConfig(apiKey, configs) ==
    LET n == Len(configs)
        config0 == Config(DefaultBaseURL, DefaultTimeout, NilHTTPClient)
        config1 == IF n > 0 /\ configs[n].BaseURL # << >>
                   THEN [config0 EXCEPT !.BaseURL = configs[n].BaseURL]
                   ELSE config0
        config2 == IF n > 0 /\ configs[n].Timeout > 0
                   THEN [config1 EXCEPT !.Timeout = configs[n].Timeout]
                   ELSE config1
        config == IF n > 0 /\ configs[n].HTTPClient # NilHTTPClient
                  THEN [config2 EXCEPT !.HTTPClient = configs[n].HTTPClient]
                  ELSE config2
        httpClient == IF config.HTTPClient = NilHTTPClient
                      THEN HTTPClient("new", config.Timeout)
                      ELSE config.HTTPClient
    IN  Client(apiKey, config.BaseURL, httpClient)

\* Variant: Config.Timeout is also set on a custom HTTP client.
NewTimeoutOnCustom(apiKey, configs) ==
    LET config0 == Config(DefaultBaseURL, DefaultTimeout, NilHTTPClient)
        config1 == IF Len(configs) > 0 /\ configs[1].BaseURL # << >>
                   THEN [config0 EXCEPT !.BaseURL = configs[1].BaseURL]
                   ELSE config0
        config2 == IF Len(configs) > 0 /\ configs[1].Timeout > 0
                   THEN [config1 EXCEPT !.Timeout = configs[1].Timeout]
                   ELSE config1
        config == IF Len(configs) > 0 /\ configs[1].HTTPClient # NilHTTPClient
                  THEN [config2 EXCEPT !.HTTPClient = configs[1].HTTPClient]
                  ELSE config2
        httpClient == IF config.HTTPClient = NilHTTPClient
                      THEN HTTPClient("new", config.Timeout)
                      ELSE [config.HTTPClient EXCEPT !.Timeout = config.Timeout]
    IN  Client(apiKey, config.BaseURL, httpClient)

\* Variant: the transport is built without the timeout.
NewNoTimeout(apiKey, configs) ==
    LET config0 == Config(DefaultBaseURL, DefaultTimeout, NilHTTPClient)
        config1 == IF Len(configs) > 0 /\ configs[1].BaseURL # << >>
                   THEN [config0 EXCEPT !.BaseURL = configs[1].BaseURL]
                   ELSE config0
        config == IF Len(configs) > 0 /\ configs[1].HTTPClient # NilHTTPClient
                  THEN [config1 EXCEPT !.HTTPClient = configs[1].HTTPClient]
                  ELSE config1
        httpClient == IF config.HTTPClient = NilHTTPClient
                      THEN HTTPClient("new", 0)
                      ELSE config.HTTPClient
    IN  Client(apiKey, config.BaseURL, httpClient)

\* New(apiKey, configs...): only configs[0] is read.
New(apiKey, configs) ==
    LET config0 == Config(DefaultBaseURL, DefaultTimeout, NilHTTPClient)
        config1 == IF Len(configs) > 0 /\ configs[1].BaseURL # << >>
                   THEN [config0 EXCEPT !.BaseURL = configs[1].BaseURL]
                   ELSE config0
        config2 == IF Len(configs) > 0 /\ configs[1].Timeout > 0
                   THEN [config1 EXCEPT !.Timeout = configs[1].Timeout]
                   ELSE config1
        config == IF Len(configs) > 0 /\ configs[1].HTTPClient # NilHTTPClient
                  THEN [config2 EXCEPT !.HTTPClient = configs[1].HTTPClient]
                  ELSE config2
        httpClient == IF config.HTTPClient = NilHTTPClient
                      THEN HTTPClient("new", config.Timeout)
                      ELSE config.HTTPClient
    IN  Client(apiKey, config.BaseURL, httpClient)

(***************************************************************************)
(* Inputs.                                                                *)
(***************************************************************************)
MaxConfigs == 2

APIKeys == {"test-api-key", ""}

BaseURLs ==
    { << >>,
      << "https", "://", "custom.api.com" >>,
      << "http", "://", "localhost:8080", "/" >>,
      << "", "://", "no-scheme.local" >> }

Timeouts == {-1, 0, 60}

HTTPClients == {NilHTTPClient, HTTPClient("custom", 120), HTTPClient("custom", 0)}

Configs ==
    {Config(u, t, h) : u \in BaseURLs, t \in Timeouts, h \in HTTPClients}

ConfigLists == UNION {[1..n -> Configs] : n \in 0..MaxConfigs}

\* The last one holds a byte that is no UTF-8.
Numbers == {"", "+1234567890", " +5511984339000 ", "+244\\xFF"}

\* context.Context values: nil, context.Background(), or a context made by
\* context.WithTimeout / WithCancel.
Contexts == {"nil", "Background", "WithTimeout"}

Canceled == "context canceled"

DeadlineExceeded == "context deadline exceeded"

\* ctx.Err(): "" is nil.
ContextErrors(c) ==
    IF c = "WithTimeout" THEN {"", Canceled, DeadlineExceeded} ELSE {""}

StatusOK == 200

Statuses == {200, 201, 204, 401, 429, 500}

Carriers == {"UNITEL", ""}

VerifyResponses == {VerifyResponse(c, v) : c \in Carriers, v \in BOOLEAN}

RetryAfter == MapPut(NilMap, "retry_after", JV("str", "30", << >>))

ErrorPayloads ==
    {ErrorResponse(m, c, d) :
        m \in {"Invalid API key"}, c \in {"unauthorized", ""}, d \in {NilMap, RetryAfter}}

\* Bodies that are no JSON text at all.
MalformedBodies ==
    { << >>,
      << Chars("invalid json") >>,
      << LBrace, Str("error"), Colon >>,
      << LBrace, Str("valid"), Colon, Lit("true"), RBrace, Chars("trailing") >> }

\* JSON texts that do not have the shape of the struct they are decoded into.
MistypedBodies ==
    { << Str("Service Unavailable") >>,
      << LBrack, Num("1"), RBrack >>,
      << LBrace, Str("error"), Colon, Num("5"), Comma,
         Str("code"), Colon, Str("unauthorized"), Comma,
         Str("carrier"), Colon, Num("5"), RBrace >> }

\* JSON texts that decode without naming the fields.
BlankBodies ==
    { << Lit("null") >>,
      << LBrace, RBrace >> }

\* Error payloads that name a code and no error.
CodeOnlyBodies ==
    { << LBrace, Str("code"), Colon, Str("rate_limited"), RBrace >> }

Bodies ==
    {EncodeVerifyResponse(r) : r \in VerifyResponses}
    \cup {EncodeErrorResponse(e) : e \in ErrorPayloads}
    \cup MalformedBodies \cup MistypedBodies \cup BlankBodies \cup CodeOnlyBodies

(***************************************************************************)
(* The request and the transport's errors.                                *)
(***************************************************************************)
\* fmt.Sprintf("%s/api/verify", c.baseURL)
VerifyURL(baseURL) == baseURL \o << "/api/verify" >>

\* r.URL.Path as the service sees it: what follows scheme, "://" and host.
URLPath(url) == SubSeq(url, 4, Len(url))

\* url.Parse: a URL that starts with ":" has no protocol scheme.
ParseURL(url) == ~(Len(url) >= 2 /\ url[1] = "" /\ url[2] = "://")

NoRequest ==
    [ctx |-> "nil", Method |-> "", URL |-> << >>, Body |-> << >>,
     Authorization |-> << >>, ContentType |-> "", UserAgent |-> ""]

\* Variant: the request is built without the caller's context.
RequestContextBackground(c) == "Background"

\* The context the request is bound to.
RequestContext(c) == c

\* http.NewRequestWithContext(ctx, method, url, body): err = "" is nil.
NewRequestWithContext(c, method, url, body) ==
    IF c = "nil" THEN [err |-> "net/http: nil Context", req |-> NoRequest]
    ELSE IF ~ParseURL(url) THEN [err |-> "missing protocol scheme", req |-> NoRequest]
    ELSE [err |-> "",
          req |-> [NoRequest EXCEPT !.ctx = RequestContext(c), !.Method = method,
                                    !.URL = url, !.Body = body]]

\* Variant: the key is sent without the "Bearer " scheme.
SetHeadersNoScheme(r, apiKey) ==
    [r EXCEPT !.Authorization = << apiKey >>,
              !.ContentType = "application/json",
              !.UserAgent = "checkhim-go-sdk/1.0"]

\* httpReq.Header.Set(...) x 3
SetHeaders(r, apiKey) ==
    [r EXCEPT !.Authorization = << "Bearer ", apiKey >>,
              !.ContentType = "application/json",
              !.UserAgent = "checkhim-go-sdk/1.0"]

NoSuchHost == "no such host"

ConnectionRefused == "connection refused"

UnexpectedEOF == "unexpected EOF"

ClientTimeoutHeaders ==
    "context deadline exceeded (Client.Timeout exceeded while awaiting headers)"

ClientTimeoutBody ==
    "context deadline exceeded (Client.Timeout or context cancellation while reading body)"

\* What can make c.httpClient.Do fail other than the request's context.
DoFailures(httpClient) ==
    {NoSuchHost, ConnectionRefused}
    \cup (IF httpClient.Timeout > 0 THEN {ClientTimeoutHeaders} ELSE {})

\* What can make io.ReadAll(resp.Body) fail other than the request's context.
ReadFailures(httpClient) ==
    {UnexpectedEOF}
    \cup (IF httpClient.Timeout > 0 THEN {ClientTimeoutBody} ELSE {})

\* errors.Is(err, target) along the %w chain; net/http's Client.Timeout
\* errors report Is(context.DeadlineExceeded).
ErrorsIs(e, target) ==
    /\ e.type = "wrapError"
    /\ \/ e.cause = target
       \/ target = DeadlineExceeded /\ e.cause \in {ClientTimeoutHeaders, ClientTimeoutBody}

\* errors.As(err, &apiErr)
IsAPIError(e) == e.type = "APIError"

(***************************************************************************)
(* VerifyWithContext, in the pieces between its blocking points.          *)
(***************************************************************************)
Outcome(resp, e) == [resp |-> resp, err |-> e]

\* checkhim.go:151-157
PreconditionError ==
    APIError(400, Text("phone number is required"), "invalid_request", NilMap)

\* checkhim.go:180-182
ExecuteFailed(cause) == Outcome(NilResponse, Errorf("failed to execute request", cause))

\* Variant: the read error is dropped and the status is reported.
ReadFailedAsAPIError(status, cause) ==
    Outcome(NilResponse, APIError(status, << >>, "", NilMap))

\* checkhim.go:186-188
ReadFailed(status, cause) ==
    Outcome(NilResponse, Errorf("failed to read response body", cause))

\* Variant: the fallback takes its message from the decoded payload.
ErrorOutcomeNoRawBody(status, body) ==
    LET u == UnmarshalErrorResponse(body) IN
    IF u.err = ""
    THEN Outcome(NilResponse, APIError(status, Text(u.v.Error), u.v.Code, u.v.Details))
    ELSE Outcome(NilResponse, APIError(status, Text(u.v.Error), "", NilMap))

\* Variant: a payload without a message falls back to the raw body.
ErrorOutcomeRawWhenEmpty(status, body) ==
    LET u == UnmarshalErrorResponse(body) IN
    IF u.err = "" /\ u.v.Error # ""
    THEN Outcome(NilResponse, APIError(status, Text(u.v.Error), u.v.Code, u.v.Details))
    ELSE Outcome(NilResponse, APIError(status, body, "", NilMap))

\* checkhim.go:190-205: the status is not 200.
ErrorOutcome(status, body) ==
    LET u == UnmarshalErrorResponse(body) IN
    IF u.err = ""
    THEN Outcome(NilResponse, APIError(status, Text(u.v.Error), u.v.Code, u.v.Details))
    ELSE Outcome(NilResponse, APIError(status, body, "", NilMap))

\* Variant: the unmarshal error is ignored.
SuccessOutcomeIgnoreErr(body) ==
    Outcome(PtrResponse(UnmarshalVerifyResponse(body).v), NoError)

\* Variant: the partly decoded response is returned along with the error.
SuccessOutcomePartial(body) ==
    LET u == UnmarshalVerifyResponse(body) IN
    IF u.err # ""
    THEN Outcome(PtrResponse(u.v), Errorf("failed to unmarshal response", u.err))
    ELSE Outcome(PtrResponse(u.v), NoError)

\* checkhim.go:207-212: the status is 200.
SuccessOutcome(body) ==
    LET u == UnmarshalVerifyResponse(body) IN
    IF u.err # ""
    THEN Outcome(NilResponse, Errorf("failed to unmarshal response", u.err))
    ELSE Outcome(PtrResponse(u.v), NoError)

\* Variant: only 4xx and 5xx statuses are taken as errors.
HandleResponseClientErrors(status, body) ==
    IF status >= 400 THEN ErrorOutcome(status, body) ELSE SuccessOutcome(body)

\* checkhim.go:190-212: the response's status and whole body are known.
HandleResponse(status, body) ==
    IF status # StatusOK THEN ErrorOutcome(status, body) ELSE SuccessOutcome(body)

\* Variant: the precondition is not checked.
NumberMissingUnchecked(r) == FALSE

\* checkhim.go:151: the precondition on the request.
NumberMissing(r) == r.Number = ""

\* Variant: a context that is already done is reported before the number
\* is looked at.
RejectedAfterContext(c, e, r) == NumberMissing(r) /\ ~(c = "WithTimeout" /\ e # "")

\* checkhim.go:150-151: the first statement of VerifyWithContext tests the
\* number; ctx is not read before http.NewRequestWithContext.
Rejected(c, e, r) == NumberMissing(r)

\* Which unmarshal of checkhim.go:190-212 ran, and whether it succeeded.
ParseEvent(status, body) ==
    LET e == IF status # StatusOK THEN UnmarshalErrorResponse(body).err
             ELSE UnmarshalVerifyResponse(body).err
    IN  IF e = "" THEN "parsed" ELSE "parse-failed"

NoResponse == [StatusCode |-> 0, Body |-> << >>]

(***************************************************************************)
(* State.                                                                 *)
(*   client    the Client built by New                                    *)
(*   pc        where the current call is: "idle" (no call yet), "do"      *)
(*             (blocked in c.httpClient.Do), "read" (blocked in           *)
(*             io.ReadAll), "returned"                                    *)
(*   ctx       the context given to the call; ctxErr its Err()            *)
(*   req       the VerifyRequest given to the call                        *)
(*   httpReq   the request handed to the transport                        *)
(*   sent      how many times the call has invoked c.httpClient.Do        *)
(*   wire      the exchange: "none", "pending" (no response yet),         *)
(*             "responded" (the service's response has arrived),          *)
(*             "discarded" (it arrived after the call had returned)       *)
(*   response  the service's response, once it has arrived                *)
(*   result, err   the values the call returned                           *)
(*   life      the lifecycle states the call has passed through           *)
(***************************************************************************)
VARIABLES client, pc, ctx, ctxErr, req, httpReq, sent, wire, response, result, err, life

\* newArgs: the arguments of the New under study (construction alone).
\* calls: the calls in progress when several callers share the client.
VARIABLES newArgs, calls
\* errorText: what err.Error() returned to the caller, NoText before the call.
VARIABLES errorText

vars ==
    << client, pc, ctx, ctxErr, req, httpReq, sent, wire, response, result, err, life,
       newArgs, calls, errorText >>

NoText == << >>

\* No client yet.
NoClient == Client("", << >>, NilHTTPClient)

NoArgs == [apiKey |-> "", configs |-> << >>]

NoCalls == << >>

Init ==
    /\ client \in {New(k, cfgs) : k \in APIKeys, cfgs \in ConfigLists}
    /\ pc = "idle"
    /\ ctx = "Background"
    /\ ctxErr = ""
    /\ req = VerifyRequest("")
    /\ httpReq = NoRequest
    /\ sent = 0
    /\ wire = "none"
    /\ response = NoResponse
    /\ result = NilResponse
    /\ err = NoError
    /\ life = << "not-started" >>
    /\ newArgs = NoArgs
    /\ errorText = NoText
    /\ calls = NoCalls

\* return o.resp, o.err
\* Variant: the URL of the call is kept in the client.
ReturnKeepURL(o, event) ==
    /\ pc' = "returned"
    /\ result' = o.resp
    /\ err' = o.err
    /\ life' = Append(life, event)
    /\ client' = [client EXCEPT !.baseURL = VerifyURL(@)]

\* checkhim.go:150-213: a return statement; the receiver is only read.
Return(o, event) ==
    /\ pc' = "returned"
    /\ result' = o.resp
    /\ err' = o.err
    /\ life' = Append(life, event)
    /\ UNCHANGED client

\* Variant: a failed Do is tried once more.
DoFailedRetry(cause, event) ==
    IF sent < 2
    THEN /\ sent' = sent + 1
         /\ pc' = "do"
         /\ wire' = "pending"
         /\ UNCHANGED << client, httpReq, result, err, life >>
    ELSE /\ Return(ExecuteFailed(cause), event)
         /\ UNCHANGED << sent, httpReq, wire >>

\* Variant: after a failed Do the call goes on to read a body.
DoFailedContinue(cause, event) ==
    /\ pc' = "read"
    /\ life' = Append(life, event)
    /\ UNCHANGED << client, result, err, sent, httpReq, wire >>

\* checkhim.go:179-182: c.httpClient.Do returned an error.
DoFailed(cause, event) ==
    /\ Return(ExecuteFailed(cause), event)
    /\ UNCHANGED << sent, httpReq, wire >>

\* checkhim.go:150-179: a call, up to the point where it blocks in Do.  A
\* request whose context is already done fails in Do at once.
VerifyWithContext(c, e, r) ==
    /\ pc \in {"idle", "returned"}
    /\ ctx' = c
    /\ ctxErr' = e
    /\ req' = r
    /\ response' = NoResponse
    /\ UNCHANGED << newArgs, calls, errorText, client >>
    /\ IF Rejected(c, e, r)
       THEN /\ pc' = "returned"
            /\ result' = NilResponse
            /\ err' = PreconditionError
            /\ httpReq' = NoRequest
            /\ sent' = 0
            /\ wire' = "none"
            /\ life' = << "not-started" >>
       ELSE LET internalReq == internalVerifyRequest(r.Number, "frontend")
                reqBody == MarshalInternalVerifyRequest(internalReq)
                url == VerifyURL(client.baseURL)
                nr == NewRequestWithContext(c, "POST", url, reqBody)
                hr == SetHeaders(nr.req, client.apiKey)
            IN  IF nr.err # ""
                THEN /\ pc' = "returned"
                     /\ result' = NilResponse
                     /\ err' = Errorf("failed to create request", nr.err)
                     /\ httpReq' = NoRequest
                     /\ sent' = 0
                     /\ wire' = "none"
                     /\ life' = << "not-started" >>
                ELSE /\ httpReq' = hr
                     /\ sent' = 1
                     /\ IF hr.ctx = "WithTimeout" /\ e # ""
                        THEN /\ pc' = "returned"
                             /\ result' = ExecuteFailed(e).resp
                             /\ err' = ExecuteFailed(e).err
                             /\ wire' = "none"
                             /\ life' = << "not-started", "sent", "cancelled" >>
                        ELSE /\ pc' = "do"
                             /\ result' = NilResponse
                             /\ err' = NoError
                             /\ wire' = "pending"
                             /\ life' = << "not-started", "sent" >>

\* checkhim.go:145-147
Verify(r) == VerifyWithContext("Background", "", r)

\* The service answers the request.  An answer that comes after the call has
\* given up reaches nobody.
ServerRespond(status, body) ==
    /\ wire = "pending"
    /\ wire' = IF pc = "do" THEN "responded" ELSE "discarded"
    /\ response' = [StatusCode |-> status, Body |-> body]
    /\ UNCHANGED << newArgs, calls, errorText, client, pc, ctx, ctxErr, req, httpReq, sent, result, err, life >>

\* The caller's context is cancelled or its deadline passes.  A Do that is
\* waiting for the response of a request bound to that context returns.
CtxDone(e) ==
    /\ pc \in {"do", "read"}
    /\ ctx = "WithTimeout"
    /\ ctxErr = ""
    /\ ctxErr' = e
    /\ UNCHANGED << newArgs, calls, errorText, ctx, req, response >>
    /\ IF pc = "do" /\ wire = "pending" /\ httpReq.ctx = ctx
       THEN DoFailed(e, "cancelled")
       ELSE UNCHANGED << client, pc, httpReq, sent, wire, result, err, life >>

\* c.httpClient.Do fails: DNS, connection, the client's own Timeout.
TransportFail(cause) ==
    /\ pc = "do"
    /\ cause \in DoFailures(client.httpClient)
    /\ DoFailed(cause, "transport-failed")
    /\ UNCHANGED << newArgs, calls, errorText, ctx, ctxErr, req, response >>

\* c.httpClient.Do returns the response that has arrived.
DoResponse ==
    /\ pc = "do"
    /\ wire = "responded"
    /\ pc' = "read"
    /\ life' = Append(life, "response-received")
    /\ UNCHANGED << newArgs, calls, errorText, client, ctx, ctxErr, req, httpReq, sent, wire, response, result, err >>

\* The response and the context's end are both ready: Do may report the latter.
DoCancelled ==
    /\ pc = "do"
    /\ wire = "responded"
    /\ httpReq.ctx = "WithTimeout"
    /\ ctxErr # ""
    /\ DoFailed(ctxErr, "cancelled")
    /\ UNCHANGED << newArgs, calls, errorText, ctx, ctxErr, req, response >>

\* checkhim.go:185-188: io.ReadAll fails, from the connection, the client's
\* Timeout or the request's context.
ReadAllFail(cause) ==
    /\ pc = "read"
    /\ \/ /\ cause \in ReadFailures(client.httpClient)
          /\ Return(ReadFailed(response.StatusCode, cause), "transport-failed")
       \/ /\ httpReq.ctx = "WithTimeout"
          /\ ctxErr # ""
          /\ cause = ctxErr
          /\ Return(ReadFailed(response.StatusCode, cause), "cancelled")
    /\ UNCHANGED << newArgs, calls, errorText, ctx, ctxErr, req, httpReq, sent, wire, response >>

\* checkhim.go:185-212: io.ReadAll returns the whole body.
ReadAllDone ==
    /\ pc = "read"
    /\ Return(HandleResponse(response.StatusCode, response.Body),
              ParseEvent(response.StatusCode, response.Body))
    /\ UNCHANGED << newArgs, calls, errorText, ctx, ctxErr, req, httpReq, sent, wire, response >>

Next ==
    \/ \E c \in Contexts : \E e \in ContextErrors(c) : \E r \in {VerifyRequest(n) : n \in Numbers} :
            VerifyWithContext(c, e, r)
    \/ \E r \in {VerifyRequest(n) : n \in Numbers} : Verify(r)
    \/ \E status \in Statuses : \E body \in Bodies : ServerRespond(status, body)
    \/ \E e \in {Canceled, DeadlineExceeded} : CtxDone(e)
    \/ \E cause \in {NoSuchHost, ConnectionRefused, ClientTimeoutHeaders} : TransportFail(cause)
    \/ DoResponse
    \/ DoCancelled
    \/ \E cause \in {UnexpectedEOF, ClientTimeoutBody, Canceled, DeadlineExceeded} : ReadAllFail(cause)
    \/ ReadAllDone

Spec == Init /\ [][Next]_vars

(***************************************************************************)
(* Overlapping calls on one client.  calls[i] holds the local variables   *)
(* of call i; client is shared; httpReq is the request built last.        *)
(***************************************************************************)
CallIds == {"a", "b"}

\* The local variables of a call that has not started.
NoCall ==
    [pc |-> "idle", ctx |-> "Background", ctxErr |-> "", req |-> VerifyRequest(""),
     httpReq |-> NoRequest, wire |-> "none", response |-> NoResponse,
     result |-> NilResponse, err |-> NoError]

\* checkhim.go:159-177: the request a call builds from the client and its
\* own arguments.
BuildRequest(cl, c, r) ==
    LET internalReq == internalVerifyRequest(r.Number, "frontend")
        reqBody == MarshalInternalVerifyRequest(internalReq)
        url == VerifyURL(cl.baseURL)
        nr == NewRequestWithContext(c, "POST", url, reqBody)
    IN  [err |-> nr.err,
         req |-> IF nr.err = "" THEN SetHeaders(nr.req, cl.apiKey) ELSE NoRequest]

\* checkhim.go:150-179: the locals of a call when it blocks in Do, or when
\* it has returned before that.
CallStart(cl, c, e, r) ==
    LET k == [NoCall EXCEPT !.ctx = c, !.ctxErr = e, !.req = r]
        b == BuildRequest(cl, c, r)
    IN  IF NumberMissing(r)
        THEN [k EXCEPT !.pc = "returned", !.err = PreconditionError]
        ELSE IF b.err # ""
        THEN [k EXCEPT !.pc = "returned",
                       !.err = Errorf("failed to create request", b.err)]
        ELSE IF b.req.ctx = "WithTimeout" /\ e # ""
        THEN [k EXCEPT !.pc = "returned", !.httpReq = b.req,
                       !.result = ExecuteFailed(e).resp, !.err = ExecuteFailed(e).err]
        ELSE [k EXCEPT !.pc = "do", !.httpReq = b.req, !.wire = "pending"]

\* The locals of a call after a return statement.
CallReturn(k, o) == [k EXCEPT !.pc = "returned", !.result = o.resp, !.err = o.err]

\* What the service knows about a number.
Lookup(number) ==
    IF number = "+1234567890" THEN VerifyResponse("UNITEL", TRUE)
    ELSE VerifyResponse("", FALSE)

\* The answers the service can give to a request: the verdict on the number
\* in its body, or a refusal.
Service(r) ==
    LET d == DecodeInternalRequest(r.Body) IN
    { [StatusCode |-> 200, Body |-> EncodeVerifyResponse(Lookup(d.v.Number))],
      [StatusCode |-> 429,
       Body |-> EncodeErrorResponse(ErrorResponse("Invalid API key", "", RetryAfter))] }

\* Variant: the transport sends the request built last on the client.
TransmittedLast(i) == httpReq

\* The request the transport sends for call i: the call's own httpReq.
Transmitted(i) == calls[i].httpReq

ConcNumbers == {"", "+1234567890", " +5511984339000 "}

ConcClients ==
    { New("test-api-key", << >>),
      New("test-api-key", << Config(<< "https", "://", "custom.api.com" >>, 0,
                                    HTTPClient("custom", 0)) >>) }

InitConc ==
    /\ client \in ConcClients
    /\ calls = [i \in CallIds |-> NoCall]
    /\ httpReq = NoRequest
    /\ pc = "idle"
    /\ ctx = "Background"
    /\ ctxErr = ""
    /\ req = VerifyRequest("")
    /\ sent = 0
    /\ wire = "none"
    /\ response = NoResponse
    /\ result = NilResponse
    /\ err = NoError
    /\ life = << "not-started" >>
    /\ newArgs = NoArgs
    /\ errorText = NoText

\* What no step of an overlapping call touches.
ConcFrame == UNCHANGED << client, pc, ctx, ctxErr, req, sent, wire, response, result, err,
                          life, newArgs, errorText >>

\* Call i is made.
VerifyWithContextIn(i, c, e, r) ==
    /\ calls[i].pc = "idle"
    /\ LET k == CallStart(client, c, e, r) IN
       /\ calls' = [calls EXCEPT ![i] = k]
       /\ httpReq' = IF k.httpReq # NoRequest THEN k.httpReq ELSE httpReq
    /\ ConcFrame

\* The service answers the request sent for call i.
ServerRespondIn(i, a) ==
    /\ calls[i].pc = "do"
    /\ calls[i].wire = "pending"
    /\ a \in Service(Transmitted(i))
    /\ calls' = [calls EXCEPT ![i].wire = "responded", ![i].response = a]
    /\ UNCHANGED httpReq
    /\ ConcFrame

\* The context of call i is cancelled or its deadline passes.
CtxDoneIn(i, e) ==
    /\ calls[i].pc \in {"do", "read"}
    /\ calls[i].ctx = "WithTimeout"
    /\ calls[i].ctxErr = ""
    /\ LET k == [calls[i] EXCEPT !.ctxErr = e] IN
       calls' = [calls EXCEPT ![i] =
                    IF k.pc = "do" /\ k.wire = "pending" /\ k.httpReq.ctx = k.ctx
                    THEN CallReturn(k, ExecuteFailed(e))
                    ELSE k]
    /\ UNCHANGED httpReq
    /\ ConcFrame

\* c.httpClient.Do of call i fails.
TransportFailIn(i, cause) ==
    /\ calls[i].pc = "do"
    /\ cause \in DoFailures(client.httpClient)
    /\ calls' = [calls EXCEPT ![i] = CallReturn(@, ExecuteFailed(cause))]
    /\ UNCHANGED httpReq
    /\ ConcFrame

\* c.httpClient.Do of call i returns the response that has arrived.
DoResponseIn(i) ==
    /\ calls[i].pc = "do"
    /\ calls[i].wire = "responded"
    /\ calls' = [calls EXCEPT ![i].pc = "read"]
    /\ UNCHANGED httpReq
    /\ ConcFrame

\* The response and the end of the context of call i are both ready.
DoCancelledIn(i) ==
    /\ calls[i].pc = "do"
    /\ calls[i].wire = "responded"
    /\ calls[i].httpReq.ctx = "WithTimeout"
    /\ calls[i].ctxErr # ""
    /\ calls' = [calls EXCEPT ![i] = CallReturn(@, ExecuteFailed(calls[i].ctxErr))]
    /\ UNCHANGED httpReq
    /\ ConcFrame

\* checkhim.go:185-188 in call i.
ReadAllFailIn(i, cause) ==
    /\ calls[i].pc = "read"
    /\ \/ cause \in ReadFailures(client.httpClient)
       \/ /\ calls[i].httpReq.ctx = "WithTimeout"
          /\ calls[i].ctxErr # ""
          /\ cause = calls[i].ctxErr
    /\ calls' = [calls EXCEPT ![i] =
                    CallReturn(@, ReadFailed(calls[i].response.StatusCode, cause))]
    /\ UNCHANGED httpReq
    /\ ConcFrame

\* checkhim.go:185-212 in call i.
ReadAllDoneIn(i) ==
    /\ calls[i].pc = "read"
    /\ calls' = [calls EXCEPT ![i] =
                    CallReturn(@, HandleResponse(calls[i].response.StatusCode,
                                                 calls[i].response.Body))]
    /\ UNCHANGED httpReq
    /\ ConcFrame

NextConc ==
    \E i \in CallIds :
        \/ \E c \in Contexts : \E e \in ContextErrors(c) :
           \E r \in {VerifyRequest(n) : n \in ConcNumbers} : VerifyWithContextIn(i, c, e, r)
        \/ \E status \in {200, 429} : \E body \in Bodies :
              ServerRespondIn(i, [StatusCode |-> status, Body |-> body])
        \/ \E e \in {Canceled, DeadlineExceeded} : CtxDoneIn(i, e)
        \/ \E cause \in {NoSuchHost, ConnectionRefused, ClientTimeoutHeaders} :
              TransportFailIn(i, cause)
        \/ DoResponseIn(i)
        \/ DoCancelledIn(i)
        \/ \E cause \in {UnexpectedEOF, ClientTimeoutBody, Canceled, DeadlineExceeded} :
              ReadAllFailIn(i, cause)
        \/ ReadAllDoneIn(i)

SpecConc == InitConc /\ [][NextConc]_vars

(***************************************************************************)
(* Calls under fairness.  http.Client arms a timer when Timeout > 0; the  *)
(* timer fires while Do or the read of the body is still blocked.         *)
(***************************************************************************)
LiveClients ==
    { New("test-api-key", << >>),
      New("test-api-key", << Config(<< >>, 60, NilHTTPClient) >>),
      New("test-api-key", << Config(<< "https", "://", "custom.api.com" >>, 60,
                                    HTTPClient("custom", 0)) >>) }

LiveNumbers == {"", "+1234567890"}

LiveBodies ==
    { EncodeVerifyResponse(VerifyResponse("UNITEL", TRUE)),
      << Chars("invalid json") >> }

InitLive ==
    /\ client \in LiveClients
    /\ pc = "idle"
    /\ ctx = "Background"
    /\ ctxErr = ""
    /\ req = VerifyRequest("")
    /\ httpReq = NoRequest
    /\ sent = 0
    /\ wire = "none"
    /\ response = NoResponse
    /\ result = NilResponse
    /\ err = NoError
    /\ life = << "not-started" >>
    /\ newArgs = NoArgs
    /\ errorText = NoText
    /\ calls = NoCalls

NextLive ==
    \/ \E c \in Contexts : \E e \in ContextErrors(c) : \E r \in {VerifyRequest(n) : n \in LiveNumbers} :
            VerifyWithContext(c, e, r)
    \/ \E r \in {VerifyRequest(n) : n \in LiveNumbers} : Verify(r)
    \/ \E status \in {200, 429} : \E body \in LiveBodies : ServerRespond(status, body)
    \/ \E e \in {Canceled, DeadlineExceeded} : CtxDone(e)
    \/ \E cause \in {NoSuchHost, ConnectionRefused, ClientTimeoutHeaders} : TransportFail(cause)
    \/ DoResponse
    \/ DoCancelled
    \/ \E cause \in {UnexpectedEOF, ClientTimeoutBody, Canceled, DeadlineExceeded} : ReadAllFail(cause)
    \/ ReadAllDone

\* The timer of a client with Timeout > 0 fires if the call stays blocked.
TimerFires ==
    /\ WF_vars(TransportFail(ClientTimeoutHeaders))
    /\ WF_vars(ReadAllFail(ClientTimeoutBody))

SpecLive == InitLive /\ [][NextLive]_vars /\ TimerFires

(***************************************************************************)
(* Error() alone, on every APIError value of a bounded set.               *)
(***************************************************************************)
APIErrors ==
    {APIError(status, message, code, details) :
        status \in Statuses \cup {400},
        message \in {<< >>, Text("Bad request"), Text("Internal server error"),
                     << Chars("invalid json") >>},
        code \in {"", "bad_request"},
        details \in {NilMap, RetryAfter}}

InitError ==
    /\ err \in APIErrors
    /\ errorText = NoText
    /\ client = NoClient
    /\ pc = "idle"
    /\ ctx = "Background"
    /\ ctxErr = ""
    /\ req = VerifyRequest("")
    /\ httpReq = NoRequest
    /\ sent = 0
    /\ wire = "none"
    /\ response = NoResponse
    /\ result = NilResponse
    /\ life = << "not-started" >>
    /\ newArgs = NoArgs
    /\ calls = NoCalls

\* The caller asks the error for its text.
ErrorString ==
    /\ errorText = NoText
    /\ errorText' = Error(err)
    /\ UNCHANGED << client, pc, ctx, ctxErr, req, httpReq, sent, wire, response, result, err,
                    life, newArgs, calls >>

NextError == ErrorString

SpecError == InitError /\ [][NextError]_vars

(***************************************************************************)
(* Construction alone: New applied to every argument list.                *)
(***************************************************************************)
InitNew ==
    /\ newArgs \in [apiKey : APIKeys, configs : ConfigLists]
    /\ errorText = NoText
    /\ client = NoClient
    /\ pc = "idle"
    /\ ctx = "Background"
    /\ ctxErr = ""
    /\ req = VerifyRequest("")
    /\ httpReq = NoRequest
    /\ sent = 0
    /\ wire = "none"
    /\ response = NoResponse
    /\ result = NilResponse
    /\ err = NoError
    /\ life = << "not-started" >>
    /\ calls = NoCalls

\* client := New(apiKey, configs...)
Construct ==
    /\ client = NoClient
    /\ client' = New(newArgs.apiKey, newArgs.configs)
    /\ UNCHANGED << pc, ctx, ctxErr, req, httpReq, sent, wire, response, result, err, life,
                    newArgs, calls, errorText >>

NextNew == Construct

SpecNew == InitNew /\ [][NextNew]_vars

(***************************************************************************)
(* Properties.                                                            *)
(***************************************************************************)
Returned == pc = "returned"

\* The call returned after io.ReadAll gave it the whole body.
BodyRead == Returned /\ life[Len(life)] \in {"parsed", "parse-failed"}

\* C1: a call with an empty phone number hands nothing to the transport and
\* returns a nil response with the APIError {400, "phone number is required",
\* "invalid_request"}, for every client and every context.
C1_EmptyNumberRejected ==
    (Returned /\ req.Number = "") =>
        /\ sent = 0
        /\ httpReq = NoRequest
        /\ wire = "none"
        /\ result.isNil
        /\ err.type = "APIError"
        /\ err.StatusCode = 400
        /\ err.Message = << Chars("phone number is required") >>
        /\ err.Code = "invalid_request"

C1_Witness ==
    /\ Returned
    /\ req.Number = ""
    /\ ctx = "WithTimeout"
    /\ ctxErr = DeadlineExceeded
    /\ client.baseURL # DefaultBaseURL

\* C2: for a non-empty number, a 200 response whose body is the encoding of
\* {carrier: c, valid: v} yields the response (Valid = v, Carrier = c) and a
\* nil error.
C2_SuccessDecoded ==
    \A r \in VerifyResponses :
        (BodyRead /\ response.StatusCode = 200 /\ response.Body = EncodeVerifyResponse(r)) =>
            /\ ~result.isNil
            /\ result.Valid = r.Valid
            /\ result.Carrier = r.Carrier
            /\ err.type = "nil"

C2_Witness ==
    /\ BodyRead
    /\ req.Number = " +5511984339000 "
    /\ response.StatusCode = 200
    /\ response.Body = EncodeVerifyResponse(VerifyResponse("", FALSE))
    /\ ~result.isNil

\* C3: a response with any status other than 200 whose body is the encoding
\* of an error payload {error, code?, details?} yields a nil response and an
\* APIError carrying the status and the payload's error, code and details.
C3_ErrorPayloadDecoded ==
    \A e \in ErrorPayloads :
        (BodyRead /\ response.StatusCode # 200 /\ response.Body = EncodeErrorResponse(e)) =>
            /\ result.isNil
            /\ err.type = "APIError"
            /\ err.StatusCode = response.StatusCode
            /\ err.Message = << Chars(e.Error) >>
            /\ err.Code = e.Code
            /\ err.Details = e.Details

C3_Witness ==
    /\ BodyRead
    /\ response.StatusCode = 201
    /\ response.Body = EncodeErrorResponse(ErrorResponse("Invalid API key", "", RetryAfter))
    /\ err.type = "APIError"

\* C4: a response with a status other than 200 whose body does not decode
\* as the error payload yields a nil response and an APIError with the
\* status, the raw body as Message, an empty Code and no Details.
C4_RawBodyFallback ==
    (BodyRead /\ response.StatusCode # 200
        /\ response.Body \in MalformedBodies \cup MistypedBodies) =>
        /\ result.isNil
        /\ err.type = "APIError"
        /\ err.StatusCode = response.StatusCode
        /\ err.Message = response.Body
        /\ err.Code = ""
        /\ err.Details = NilMap

C4_Witness ==
    /\ BodyRead
    /\ response.StatusCode = 500
    /\ response.Body = << >>
    /\ err.type = "APIError"

\* C5: a 200 response whose body does not decode as a verify response yields
\* a nil response and the error "failed to unmarshal response", which is no
\* APIError.
C5_UnparsableSuccessBody ==
    (BodyRead /\ response.StatusCode = 200
        /\ response.Body \in MalformedBodies \cup MistypedBodies) =>
        /\ result.isNil
        /\ err.type = "wrapError"
        /\ err.Message = << Chars("failed to unmarshal response") >>
        /\ ~IsAPIError(err)

C5_Witness ==
    /\ BodyRead
    /\ response.StatusCode = 200
    /\ response.Body = << >>
    /\ err.type = "wrapError"

\* C6: every return carries exactly one of a response and an error.
C6_ResponseXorError ==
    Returned =>
        /\ result.isNil <=> err.type # "nil"
        /\ result.isNil => result = NilResponse

C6_Witness ==
    /\ Returned
    /\ life[Len(life)] = "parse-failed"
    /\ response.StatusCode = 200
    /\ result.isNil
    /\ err.type # "nil"

\* The step in which the context of a call blocked in Do, with no response
\* yet, is cancelled or passes its deadline.
CancelledInFlight == pc = "do" /\ wire = "pending" /\ ctxErr = "" /\ ctxErr' # ""

\* The step in which the service's response arrives after the call returned.
LateResponse == Returned /\ wire = "pending" /\ wire' = "discarded"

\* C7: when the context ends while the request is in flight and the service
\* has not responded, the call returns in that step, without the response,
\* with a nil response and an error that wraps the context's error; a
\* response that arrives later changes nothing of what was returned.
C7_CancellationInFlight ==
    [][/\ CancelledInFlight =>
            /\ pc' = "returned"
            /\ wire' = "pending"
            /\ result' = NilResponse
            /\ err'.type = "wrapError"
            /\ err'.Message = << Chars("failed to execute request") >>
            /\ err'.cause = ctxErr'
            /\ ctxErr' \in {Canceled, DeadlineExceeded}
       /\ LateResponse => (pc' = "returned" /\ result' = result /\ err' = err)]_vars

C7_Witness ==
    /\ Returned
    /\ life = << "not-started", "sent", "cancelled" >>
    /\ wire = "discarded"
    /\ response.StatusCode = 200
    /\ response.Body = EncodeVerifyResponse(VerifyResponse("UNITEL", TRUE))
    /\ result.isNil
    /\ err.cause = DeadlineExceeded

\* What a caller can test on a returned error: its type, the SDK's message,
\* and errors.Is against the two context errors.
Classification(e) ==
    << e.type, e.Message, ErrorsIs(e, Canceled), ErrorsIs(e, DeadlineExceeded) >>

\* The classifications of the errors a call returns when its context ends.
CancellationClasses ==
    {Classification(ExecuteFailed(c).err) : c \in {Canceled, DeadlineExceeded}}
    \cup {Classification(ReadFailed(s, c).err) : s \in Statuses, c \in {Canceled, DeadlineExceeded}}

\* C8: an error is classified as a cancellation exactly when the caller's
\* context ended the call; a transport failure (DNS, connection refused,
\* client timeout) never has the classification of a cancellation.
C8_CancellationDistinct ==
    (Returned /\ err.type = "wrapError") =>
        (Classification(err) \in CancellationClasses
            <=> life[Len(life)] = "cancelled")

\* C9: a call whose transport failed, before a response or while the body
\* was read, returns a nil response and an error that is no APIError; an
\* APIError for a non-empty number is returned only after the whole body of
\* a response with a status other than 200 was read.
C9_TransportFailureNotAPIError ==
    /\ (Returned /\ life[Len(life)] = "transport-failed") =>
            /\ result.isNil
            /\ err.type = "wrapError"
            /\ ~IsAPIError(err)
            /\ err.Message =
                 IF life[Len(life) - 1] = "response-received"
                 THEN << Chars("failed to read response body") >>
                 ELSE << Chars("failed to execute request") >>
    /\ (Returned /\ IsAPIError(err) /\ req.Number # "") =>
            /\ BodyRead
            /\ wire = "responded"
            /\ response.StatusCode # 200
            /\ err.StatusCode = response.StatusCode

C9_Witness ==
    /\ Returned
    /\ life = << "not-started", "sent", "response-received", "transport-failed" >>
    /\ response.StatusCode = 500
    /\ response.Body = EncodeErrorResponse(ErrorResponse("Invalid API key", "unauthorized", NilMap))
    /\ err.cause = UnexpectedEOF

\* The request of the current call can be built.
RequestBuilt == ctx # "nil" /\ ParseURL(VerifyURL(client.baseURL))

\* C10: a call hands at most one request to the transport, whatever its
\* outcome, and exactly one when the number is non-empty and the request
\* could be built.
C10_NoRetry ==
    /\ sent <= 1
    /\ (pc # "idle" /\ req.Number # "" /\ RequestBuilt) => sent = 1
    /\ (pc # "idle" /\ (req.Number = "" \/ ~RequestBuilt)) => sent = 0

C10_Witness ==
    /\ Returned
    /\ sent = 1
    /\ life[Len(life)] = "transport-failed"
    /\ err.cause = ConnectionRefused

\* C11, as claimed: for every non-empty number n, decoding the body that the
\* call sends recovers number = n and type = "frontend".
C11_RoundTripEveryNumber ==
    (sent = 1) =>
        LET d == DecodeInternalRequest(httpReq.Body) IN
        d.err = "" /\ d.v.Number = req.Number /\ d.v.Type = "frontend"

\* C11, amended: the number is recovered exactly when it is valid UTF-8
\* (json.Marshal replaces every other byte by U+FFFD); the type is
\* "frontend" for every number, client and context.
C11_RoundTripValidUTF8 ==
    (sent = 1) =>
        LET d == DecodeInternalRequest(httpReq.Body) IN
        /\ d.err = ""
        /\ d.v.Type = "frontend"
        /\ req.Number \in {"+1234567890", " +5511984339000 "} => d.v.Number = req.Number
        /\ req.Number = "+244\\xFF" => d.v.Number = "+244\\uFFFD"

C11_Witness ==
    /\ sent = 1
    /\ req.Number = " +5511984339000 "
    /\ DecodeInternalRequest(httpReq.Body).v.Number = " +5511984339000 "
    /\ client.apiKey = ""
    /\ ctx = "WithTimeout"

\* The method, target and headers of the request the call has sent.
RequestShape ==
    /\ httpReq.Method = "POST"
    /\ httpReq.URL = client.baseURL \o << "/api/verify" >>
    /\ httpReq.Authorization = << "Bearer ", client.apiKey >>
    /\ httpReq.ContentType = "application/json"
    /\ httpReq.UserAgent = "checkhim-go-sdk/1.0"

\* C12, as claimed: for any API key and any base URL the request is a POST
\* to {baseURL}/api/verify, the service sees the path /api/verify, and the
\* three headers are set.
C12_RequestShapeAnyBaseURL ==
    (sent = 1) => (RequestShape /\ URLPath(httpReq.URL) = << "/api/verify" >>)

\* C12, amended: the request is a POST to {baseURL}/api/verify with the
\* three headers; the service sees the base URL's own path followed by
\* /api/verify, which is /api/verify when the base URL ends with its host.
C12_RequestShape ==
    (sent = 1) =>
        /\ RequestShape
        /\ URLPath(httpReq.URL) = URLPath(client.baseURL) \o << "/api/verify" >>
        /\ Len(client.baseURL) = 3 => URLPath(httpReq.URL) = << "/api/verify" >>

C12_Witness ==
    /\ sent = 1
    /\ client.apiKey = "test-api-key"
    /\ client.baseURL = << "https", "://", "custom.api.com" >>
    /\ URLPath(httpReq.URL) = << "/api/verify" >>
    /\ httpReq.Authorization = << "Bearer ", "test-api-key" >>

\* New has returned.
Constructed == client # NoClient

C14_DefaultEndpointHTTPS ==
    (sent = 1 /\ client.baseURL = DefaultBaseURL) =>
        /\ httpReq.URL[1] = "https"
        /\ httpReq.Authorization = << "Bearer ", client.apiKey >>

\* C15: no step of a Verify or VerifyWithContext call, whatever its inputs
\* and its outcome, changes the client's API key, base URL or transport
\* handle.
C15_ClientImmutable ==
    [][/\ client'.apiKey = client.apiKey
       /\ client'.baseURL = client.baseURL
       /\ client'.httpClient = client.httpClient]_vars

C15_Witness ==
    /\ pc = "returned"
    /\ IsAPIError(err)
    /\ err.StatusCode = 429
    /\ httpReq.URL = << "https", "://", "custom.api.com", "/api/verify" >>
    /\ client = Client("test-api-key", << "https", "://", "custom.api.com" >>,
                       HTTPClient("custom", 120))

\* The outcomes a call can have running alone on client cl with request r,
\* context c and the context error e seen so far.
AloneOutcomes(cl, c, e, r) ==
    LET b == BuildRequest(cl, c, r)
        own == IF c = "WithTimeout" /\ e # "" THEN {e} ELSE {}
        answers == Service(b.req)
    IN  IF r.Number = "" THEN {Outcome(NilResponse, PreconditionError)}
        ELSE IF b.err # ""
        THEN {Outcome(NilResponse, Errorf("failed to create request", b.err))}
        ELSE {ExecuteFailed(cause) : cause \in DoFailures(cl.httpClient) \cup own}
             \cup {ReadFailed(a.StatusCode, cause) :
                      a \in answers, cause \in ReadFailures(cl.httpClient) \cup own}
             \cup {HandleResponse(a.StatusCode, a.Body) : a \in answers}

\* C16: in every interleaving of overlapping calls on one client, the
\* request a call sends is the one built from its own arguments, the response
\* it reads is the service's answer to that request, and the result it
\* returns is one it could get running alone; this stays so whatever the
\* other call does.
C16_CallsIndependent ==
    \A i \in CallIds :
        LET k == calls[i]
            b == BuildRequest(client, k.ctx, k.req)
        IN  /\ k.httpReq # NoRequest => (b.err = "" /\ k.httpReq = b.req)
            /\ k.wire = "responded" => k.response \in Service(b.req)
            /\ k.pc = "returned" =>
                  Outcome(k.result, k.err) \in AloneOutcomes(client, k.ctx, k.ctxErr, k.req)

\* Call a was made while call b was waiting, got its own verdict and
\* returned; b is reading the verdict on its own number.
C16_Witness ==
    /\ calls["b"].pc = "read"
    /\ calls["b"].req.Number = " +5511984339000 "
    /\ calls["b"].response =
          [StatusCode |-> 200, Body |-> EncodeVerifyResponse(VerifyResponse("", FALSE))]
    /\ calls["a"].pc = "returned"
    /\ calls["a"].req.Number = "+1234567890"
    /\ calls["a"].result = PtrResponse(VerifyResponse("UNITEL", TRUE))
    /\ httpReq = calls["a"].httpReq

\* C17: under fairness, every call on a client whose transport New built
\* eventually returns, also when the service never answers and the context
\* is never cancelled: the transport's timeout ends it.
C17_CallReturns ==
    (pc \in {"do", "read"} /\ client.httpClient.id = "new") ~> (pc = "returned")

\* Verify on a client built with Timeout 60: no answer, no cancellation, and
\* the call has returned the timeout as a transport error.
C17_Witness ==
    /\ pc = "returned"
    /\ client.httpClient = HTTPClient("new", 60)
    /\ ctx = "Background"
    /\ wire = "pending"
    /\ life = << "not-started", "sent", "transport-failed" >>
    /\ err = ExecuteFailed(ClientTimeoutHeaders).err

\* The strings in the Details of an error.
DetailStrings(e) ==
    {m.key : m \in e.Details.entries} \cup {m.val.s : m \in e.Details.entries}

\* C18: for every APIError value, Error() is "checkhim: <Message> (code:
\* <Code>, status: <StatusCode>)" when Code is not empty and "checkhim:
\* <Message> (status: <StatusCode>)" when it is; nothing of Details is in
\* the text.
C18_ErrorText ==
    (errorText # NoText) =>
        /\ err.Code # "" =>
              errorText = << Chars("checkhim: ") >> \o err.Message
                          \o << Chars(" (code: "), Chars(err.Code), Chars(", status: "),
                                Chars(ToString(err.StatusCode)), Chars(")") >>
        /\ err.Code = "" =>
              errorText = << Chars("checkhim: ") >> \o err.Message
                          \o << Chars(" (status: "), Chars(ToString(err.StatusCode)),
                                Chars(")") >>
        /\ \A i \in 1..Len(errorText) : errorText[i].v \notin DetailStrings(err)
        /\ err = APIError(500, Text("Internal server error"), "", NilMap) =>
              errorText = << Chars("checkhim: "), Chars("Internal server error"),
                             Chars(" (status: "), Chars("500"), Chars(")") >>

C18_Witness ==
    /\ err = APIError(400, Text("Bad request"), "bad_request", RetryAfter)
    /\ errorText = << Chars("checkhim: "), Chars("Bad request"), Chars(" (code: "),
                      Chars("bad_request"), Chars(", status: "), Chars("400"), Chars(")") >>

Outcomes == {"transport-failed", "cancelled", "parsed", "parse-failed"}

\* The events of a call come in the order of the lifecycle, none twice.
Ordered(after) ==
    /\ Len(life) <= 4
    /\ life[1] = "not-started"
    /\ Len(life) >= 2 => life[2] = "sent"
    /\ Len(life) >= 3 => life[3] \in {"response-received", "transport-failed", "cancelled"}
    /\ Len(life) >= 4 => (life[3] = "response-received" /\ life[4] \in after)

\* C19 as stated: every call goes not-started -> sent -> (response-received
\* | transport-failed | cancelled) -> (parsed | parse-failed), in that order
\* and without revisiting; transport-failed and cancelled are final; a call
\* that has returned has ended in exactly one of the four outcomes.
C19_LinearLifecycle ==
    /\ Ordered({"parsed", "parse-failed"})
    /\ pc = "returned" =>
          /\ life[Len(life)] \in Outcomes
          /\ Cardinality({i \in 1..Len(life) : life[i] \in Outcomes}) = 1

\* C19, amended: the order holds and no state is revisited; parsing happens
\* only after response-received; a failure or cancellation is final whether
\* it comes instead of the response or while the body is read; a call that
\* has returned has ended in exactly one outcome, or has returned from
\* not-started without sending anything (empty number, request not built).
C19_Lifecycle ==
    /\ Ordered(Outcomes)
    /\ pc = "returned" =>
          \/ /\ life[Len(life)] \in Outcomes
             /\ Cardinality({i \in 1..Len(life) : life[i] \in Outcomes}) = 1
             /\ sent = 1
          \/ /\ life = << "not-started" >>
             /\ sent = 0
             /\ result.isNil
             /\ \/ err = PreconditionError
                \/ err.type = "wrapError"
    /\ pc \in {"do", "read"} => \A i \in 1..Len(life) : life[i] \notin Outcomes

\* The body of a response could not be read: the call ends as a transport
\* failure after response-received.
C19_Witness ==
    /\ pc = "returned"
    /\ life = << "not-started", "sent", "response-received", "transport-failed" >>
    /\ err = ReadFailed(response.StatusCode, UnexpectedEOF).err

\* C20: a custom HTTP client in the first Config is the client's transport
\* as it is, its own timeout unchanged whatever Config.Timeout says; only
\* without one does New build a transport, with Config.Timeout when that is
\* positive and 30 s when it is zero or negative.
C20_CustomClientAsIs ==
    (Constructed /\ Len(newArgs.configs) > 0) =>
        LET first == newArgs.configs[1] IN
        /\ first.HTTPClient # NilHTTPClient =>
              /\ client.httpClient.id = first.HTTPClient.id
              /\ client.httpClient.Timeout = first.HTTPClient.Timeout
        /\ first.HTTPClient = NilHTTPClient =>
              /\ client.httpClient.id = "new"
              /\ first.Timeout > 0 => client.httpClient.Timeout = first.Timeout
              /\ first.Timeout <= 0 => client.httpClient.Timeout = 30

\* A custom client with 120 s next to Timeout 60: 120 s stays.
C20_Witness ==
    /\ Constructed
    /\ Len(newArgs.configs) = 1
    /\ newArgs.configs[1].HTTPClient = HTTPClient("custom", 120)
    /\ newArgs.configs[1].Timeout = 60
    /\ client.httpClient = HTTPClient("custom", 120)

\* The members of a JSON object text that encoding/json matches to the field
\* tagged name; none for a text that is no object.
Fields(body, name) ==
    LET p == ParseJSON(body) IN
    IF p.ok /\ p.val.k = "obj"
    THEN {i \in 1..Len(p.val.m) : FoldName(p.val.m[i].key) = name}
    ELSE {}

\* A status other than 200 with a body that decodes as the error payload
\* and has no error field.
NoErrorField ==
    /\ BodyRead
    /\ response.StatusCode # 200
    /\ response.Body \in BlankBodies \cup CodeOnlyBodies
                         \cup {EncodeVerifyResponse(r) : r \in VerifyResponses}
    /\ Fields(response.Body, "error") = {}

\* C21 as stated: such a response yields an APIError with its status, an
\* empty Message and an empty Code; the raw body is not kept.
C21_EmptyMessageAndCode ==
    NoErrorField =>
        /\ result.isNil
        /\ err.type = "APIError"
        /\ err.StatusCode = response.StatusCode
        /\ err.Message = << >>
        /\ err.Code = ""

\* C21, amended: such a response yields an APIError with its status and an
\* empty Message, the raw body is not kept, and the Code is the body's code
\* field: empty when the body has none.
C21_EmptyMessage ==
    NoErrorField =>
        /\ result.isNil
        /\ err.type = "APIError"
        /\ err.StatusCode = response.StatusCode
        /\ err.Message = << >>
        /\ err.Message # response.Body
        /\ Fields(response.Body, "code") = {} => err.Code = ""
        /\ response.Body \in CodeOnlyBodies => err.Code = "rate_limited"

C21_Witness ==
    /\ BodyRead
    /\ response.StatusCode = 500
    /\ response.Body = EncodeVerifyResponse(VerifyResponse("UNITEL", TRUE))
    /\ err = APIError(500, << >>, "", NilMap)

\* C22: a call with an empty number and a context that is already cancelled
\* or past its deadline returns the 400 "invalid_request" APIError, not a
\* cancellation error, and sends nothing.
C22_PreconditionBeforeContext ==
    (Returned /\ req.Number = "" /\ ctx = "WithTimeout" /\ ctxErr # "") =>
        /\ err = APIError(400, Text("phone number is required"), "invalid_request", NilMap)
        /\ ~ErrorsIs(err, Canceled)
        /\ ~ErrorsIs(err, DeadlineExceeded)
        /\ result.isNil
        /\ sent = 0
        /\ httpReq = NoRequest
        /\ life = << "not-started" >>

C22_Witness ==
    /\ Returned
    /\ req.Number = ""
    /\ ctx = "WithTimeout"
    /\ ctxErr = DeadlineExceeded
    /\ err.Code = "invalid_request"
    /\ sent = 0

====
